---- MODULE Spec2Model ----
(***************************************************************************)
(* A model of the library-subsetting programs:                             *)
(*   - first_selection-v2.py: the chunked, bounded-parallel run over one   *)
(*     compressed input file (chunked_iterator, FutureHandler, the         *)
(*     dispatch loop, process_chunk, the summary report);                  *)
(*   - library_subsetting_v3/compound_sieve.py: CompoundSieve, the staged  *)
(*     per-record classifier.                                              *)
(* Text is modelled as sequences of one-character strings, so that strip,  *)
(* split and join are computed and not assumed.                            *)
(***************************************************************************)
EXTENDS Integers, Sequences, FiniteSets, TLC

\* ------------------------------------------------------------------ bounds
\* the longest input file, in data rows (the header line comes on top)
MaxRows == 3
\* the largest chunk size tried (the program's chunk_size is 10_000)
MaxChunkSize == 2
\* the largest worker limit tried (the program's is os.cpu_count() - 1)
MaxWorkers == 2
\* the longest DataFrame given to classify_df, in rows
MaxBatch == 2
\* the most chunk files in a staging directory given to a merge
MaxArtifacts == 2
\* the most data rows in one of those chunk files
MaxArtifactRows == 2
\* a sieve is given its frame again while it has made no more than this many
\* calc_sociability calls
MaxScorerCalls == 6

\* ------------------------------------------------------------- text helpers
Range(s) == {s[j] : j \in DOMAIN s}

RECURSIVE Concat(_)
Concat(ss) == IF ss = <<>> THEN <<>> ELSE Head(ss) \o Concat(Tail(ss))

\* str.strip() with no argument removes leading and trailing whitespace
IsSpace(c) == c \in {" ", "\t", "\n"}

RECURSIVE lstrip(_)
lstrip(s) == IF s # <<>> /\ IsSpace(Head(s)) THEN lstrip(Tail(s)) ELSE s

RECURSIVE rstrip(_)
rstrip(s) ==
    IF s # <<>> /\ IsSpace(s[Len(s)]) THEN rstrip(SubSeq(s, 1, Len(s) - 1)) ELSE s

strip(s) == rstrip(lstrip(s))

\* str.split(sep): the fields between the separators, empty fields kept
RECURSIVE split_from(_, _, _)
split_from(s, sep, cur) ==
    IF s = <<>> THEN <<cur>>
    ELSE IF Head(s) = sep THEN <<cur>> \o split_from(Tail(s), sep, <<>>)
    ELSE split_from(Tail(s), sep, Append(cur, Head(s)))

split(s, sep) == split_from(s, sep, <<>>)

\* sep.join(fields)
RECURSIVE join(_, _)
join(sep, fields) ==
    IF fields = <<>> THEN <<>>
    ELSE IF Len(fields) = 1 THEN Head(fields)
    ELSE Head(fields) \o <<sep>> \o join(sep, Tail(fields))

\* ------------------------------------------------------------------ inputs
\* header lines of the input table, as read from the file (newline included)
HeaderLines == { <<"S", "\t", "I", "\n">>, <<"S", "\t", "I", "\t", "\n">> }

\* data lines: "a" stands for a compound the classifier accepts, "b" for one
\* it rejects
RowLines == { <<"a", "\n">>, <<"b", "\n">> }

RECURSIVE SeqsOfLen(_, _)
SeqsOfLen(S, n) ==
    IF n = 0 THEN { <<>> }
    ELSE { <<x>> \o s : x \in S, s \in SeqsOfLen(S, n - 1) }

SeqsUpTo(S, n) == UNION { SeqsOfLen(S, m) : m \in 0..n }

\* the input files: a header line, then 0..MaxRows data lines
Files == { <<h>> \o rows : h \in HeaderLines, rows \in SeqsUpTo(RowLines, MaxRows) }

\* path.as_posix() of the one input file
filename == "f.cxsmiles.bz2"

VARIABLES
    \* ---- first_selection-v2.py
    file,           \* the decompressed lines of the input, header first
    chunk_size,     \* chunk_size
    max_workers,    \* max_workers
    pc,             \* where the coordinator is in the module's code
    fh_pos,         \* how many lines the file iterator fh has handed out
    headers,        \* headers, once read
    chunk,          \* the loop's current chunk
    i,              \* the loop's current index (enumerate)
    futures,        \* fuhandler.futures: positions in tasks
    results,        \* fuhandler.results
    k,              \* resolve()'s position in self.futures
    tasks,          \* the tasks given to the pool, in schedule order
    staging,        \* /tmp/output/<stem>/filtered_chunk<i>.bz2, by i
    audit,          \* the lines of results-backup.jsonl
    report,         \* the rows of <stem>_reduction_results.csv, once written
    \* ---- the merges of first_selection-v2.py and second_pass.py
    listing,        \* the order in which the staging directory lists its files
    todo,           \* what the glob loop has still to visit
    merged,         \* the lines of the merged output file
    n_combined,     \* n, the merge's line counter
    header_added,   \* header_added (second_pass.py)
    printed,        \* the n of the final print (-1: nothing printed)
    first_merge     \* the outcome of an earlier run of the merge, if any

\* what the file run leaves alone until its merge
merge_vars == <<listing, todo, merged, n_combined, header_added, printed, first_merge>>

pipe_vars == <<file, chunk_size, max_workers, pc, fh_pos, headers, chunk, i,
               futures, results, k, tasks, staging, audit, report, merge_vars>>

VARIABLES
    \* ---- compound_sieve.py: one CompoundSieve run over one DataFrame
    mode,           \* self.mode
    cutoffs,        \* self.cutoffs, the rules in the dictionary's order
    df,             \* the rows classify_df is given
    row_idx,        \* the row __call__ is working on (0: none yet)
    spc,            \* where __call__ is
    verdict,        \* __call__'s verdict
    exc,            \* the exception raised inside __call__'s try, if any
    out_verdicts,   \* the verdicts returned so far (_verdicts)
    nuveau_dejavu_synthons, \* self.nuveau_dejavu_synthons
    scorer_calls,   \* the calc_sociability calls made on the sieve so far
    executed,       \* the statements of the try block run by this __call__
    out_executed,   \* executed, of each call that has returned
    analysis,       \* enable_analysis_mode() has been called on the sieve
    normal_verdicts, \* what classify_df returned before analysis mode
    lower,          \* the run of an earlier sieve of a lower mode, if any
    CompoundSieve_cutoffs, \* CompoundSieve.cutoffs, the class attribute
    other_own       \* the cutoffs attribute of a second sieve's own __dict__

\* where the cutoffs of the other sieves are kept
attr_vars == <<CompoundSieve_cutoffs, other_own>>

\* an object's __dict__ without a cutoffs entry
NoAttr == [has |-> FALSE, table |-> <<>>]

\* what the statements of __call__ leave alone
history_vars == <<analysis, normal_verdicts, lower, attr_vars>>

\* the fragment cache of the sieve and the calls that fill it
cache_vars == <<nuveau_dejavu_synthons, scorer_calls>>

sieve_vars == <<mode, cutoffs, df, row_idx, spc, verdict, exc, out_verdicts,
                cache_vars, executed, out_executed, history_vars>>

vars == <<pipe_vars, sieve_vars>>

\* ------------------------------------------------- first_selection-v2.py
\* itertools.islice(iterator, n): the next n items, fewer at the end
islice(s, n) == SubSeq(s, 1, IF n < Len(s) THEN n ELSE Len(s))

\* a chunk built without the item the for loop took
chunked_iterator_drops_first(rest, size) == islice(Tail(rest), size - 1)

\* a chunk that takes size more items after the first
chunked_iterator_one_more(rest, size) == <<Head(rest)>> \o islice(Tail(rest), size)

\* one round of chunked_iterator's for loop over what is left of the
\* iterator: the chunk it yields
chunked_iterator(rest, size) == <<Head(rest)>> \o islice(Tail(rest), size - 1)

\* a header read that leaves the line in the iterator
next_fh_peek(lines, pos) == [line |-> lines[pos + 1], pos |-> pos]

\* next(fh): the line handed out and the iterator's new position
next_fh(lines, pos) == [line |-> lines[pos + 1], pos |-> pos + 1]

\* what the external classifier says of one data line (classify_df, the
\* columns acceptable and issue)
classify_row(line) ==
    [acceptable |-> line[1] = "a",
     issue |-> IF line[1] = "a" THEN "" ELSE "too boring"]

classify_df(lines) == [j \in DOMAIN lines |-> classify_row(lines[j])]

\* a count of all the records, accepted or not
n_acceptable_all(verdicts) == Len(verdicts)

\* sum(verdicts.acceptable)
n_acceptable(verdicts) == Cardinality({j \in DOMAIN verdicts : verdicts[j].acceptable})

\* a count of the rejection reasons only
value_counts_rejected_only(verdicts) ==
    [iss \in {verdicts[j].issue : j \in DOMAIN verdicts} \ {""} |->
        Cardinality({j \in DOMAIN verdicts : verdicts[j].issue = iss})]

\* verdicts.issue.value_counts().to_dict()
value_counts(verdicts) ==
    [iss \in {verdicts[j].issue : j \in DOMAIN verdicts} |->
        Cardinality({j \in DOMAIN verdicts : verdicts[j].issue = iss})]

\* one output row: the retained columns of an accepted record
out_row(line) == <<line[1], "\t", "v", "\n">>

RECURSIVE accepted_rows(_, _)
accepted_rows(lines, verdicts) ==
    IF lines = <<>> THEN <<>>
    ELSE (IF Head(verdicts).acceptable THEN <<out_row(Head(lines))>> ELSE <<>>)
         \o accepted_rows(Tail(lines), Tail(verdicts))

\* the text process_chunk writes to its output file, as lines
chunk_txt(hdrs, lines, verdicts) ==
    <<join("\t", hdrs) \o <<"\n">>>> \o accepted_rows(lines, verdicts)

\* the dictionary process_chunk logs and returns
chunk_info(idx, verdicts) ==
    [filename |-> filename, chunk_idx |-> idx, counts |-> value_counts(verdicts)]

\* a drain that starts one future late
wait_is_full_late(fs, limit) == Len(fs) > limit

\* FutureHandler.wait's test (the model gives FutureHandler the max_workers
\* its __init__ requires; the module's own call, FutureHandler(), omits it)
wait_is_full(fs, limit) == Len(fs) >= limit

\* a resolve without its try/except: the task's exception leaves the loop
resolve_one_uncaught(res, task) ==
    [results |-> IF task.state = "done" THEN Append(res, task.info) ELSE res,
     escaped |-> task.state = "failed"]

\* FutureHandler.resolve, one future: the result list after it, and whether
\* an exception leaves resolve (except Exception catches the task's)
resolve_one(res, task) ==
    [results |-> IF task.state = "done" THEN Append(res, task.info) ELSE res,
     escaped |-> FALSE]

NoInfo == [filename |-> "", chunk_idx |-> -1, counts |-> <<>>]

\* no merge has run
NoMerge == [ran |-> FALSE, merged |-> <<>>, printed |-> -1]

\* the merge's variables before its first statement
MergeVarsInit ==
    /\ listing = <<>>
    /\ todo = <<>>
    /\ merged = <<>>
    /\ n_combined = 0
    /\ header_added = FALSE
    /\ printed = -1
    /\ first_merge = NoMerge

\* the state when the pool is open and the handler made: FutureHandler's
\* lists are empty and it holds max_workers
PipeInit ==
    /\ file \in Files
    /\ chunk_size \in 1..MaxChunkSize
    /\ max_workers \in 1..MaxWorkers
    /\ pc = "start"
    /\ fh_pos = 0
    /\ headers = <<>>
    /\ chunk = <<>>
    /\ i = -1
    /\ futures = <<>>
    /\ results = <<>>
    /\ k = 0
    /\ tasks = <<>>
    /\ staging = <<>>
    /\ audit = <<>>
    /\ report = <<>>
    /\ MergeVarsInit

\* headers = next(fh).strip().split('\t')
ReadHeader ==
    /\ pc = "start"
    /\ LET got == next_fh(file, fh_pos) IN
        /\ headers' = split(strip(got.line), "\t")
        /\ fh_pos' = got.pos
    /\ pc' = "loop"
    /\ UNCHANGED <<sieve_vars, merge_vars>>
    /\ UNCHANGED <<file, chunk_size, max_workers, chunk, i, futures, results, k,
                   tasks, staging, audit, report>>

\* for i, chunk in enumerate(chunked_iterator(fh, chunk_size)): the next round
NextChunk ==
    /\ pc = "loop"
    /\ fh_pos < Len(file)
    /\ LET rest == SubSeq(file, fh_pos + 1, Len(file)) IN
        /\ chunk' = chunked_iterator(rest, chunk_size)
        /\ fh_pos' = fh_pos + 1 + Len(islice(Tail(rest), chunk_size - 1))
    /\ i' = i + 1
    /\ pc' = "wait"
    /\ UNCHANGED <<sieve_vars, merge_vars>>
    /\ UNCHANGED <<file, chunk_size, max_workers, headers, futures, results, k,
                   tasks, staging, audit, report>>

\* the iterator is exhausted: the loop and the file's with block end
EndOfInput ==
    /\ pc = "loop"
    /\ fh_pos >= Len(file)
    /\ pc' = "pool_exit"
    /\ UNCHANGED <<sieve_vars, merge_vars>>
    /\ UNCHANGED <<file, chunk_size, max_workers, fh_pos, headers, chunk, i,
                   futures, results, k, tasks, staging, audit, report>>

\* fuhandler.wait(): start a drain when the list is full
Wait ==
    /\ pc = "wait"
    /\ IF wait_is_full(futures, max_workers)
       THEN pc' = "resolve" /\ k' = 1
       ELSE pc' = "schedule" /\ k' = k
    /\ UNCHANGED <<sieve_vars, merge_vars>>
    /\ UNCHANGED <<file, chunk_size, max_workers, fh_pos, headers, chunk, i,
                   futures, results, tasks, staging, audit, report>>

\* resolve(): future.result() of the next future, which blocks until its task
\* has ended; after the last one wait() empties the list
ResolveOne ==
    /\ pc = "resolve"
    /\ k <= Len(futures)
    /\ tasks[futures[k]].state \in {"done", "failed"}
    /\ LET got == resolve_one(results, tasks[futures[k]]) IN
        /\ results' = got.results
        /\ IF got.escaped
           THEN futures' = futures /\ k' = k /\ pc' = "crashed"
           ELSE IF k = Len(futures)
           THEN futures' = <<>> /\ k' = 0 /\ pc' = "schedule"
           ELSE futures' = futures /\ k' = k + 1 /\ pc' = pc
    /\ UNCHANGED <<sieve_vars, merge_vars>>
    /\ UNCHANGED <<file, chunk_size, max_workers, fh_pos, headers, chunk, i,
                   tasks, staging, audit, report>>

\* future = pool.schedule(process_chunk, args=(chunk, filename, i, headers));
\* fuhandler.futures.append(future)
Schedule ==
    /\ pc = "schedule"
    /\ tasks' = Append(tasks, [chunk |-> chunk, i |-> i, headers |-> headers,
                               state |-> "pending", verdicts |-> <<>>,
                               wrote |-> FALSE, info |-> NoInfo])
    /\ futures' = Append(futures, Len(tasks) + 1)
    /\ pc' = "loop"
    /\ UNCHANGED <<sieve_vars, merge_vars>>
    /\ UNCHANGED <<file, chunk_size, max_workers, fh_pos, headers, chunk, i,
                   results, k, staging, audit, report>>

\* the pool's with block ends: close() and join() wait for every task
PoolExit ==
    /\ pc = "pool_exit"
    /\ \A t \in DOMAIN tasks : tasks[t].state \in {"done", "failed"}
    /\ pc' = "report"
    /\ UNCHANGED <<sieve_vars, merge_vars>>
    /\ UNCHANGED <<file, chunk_size, max_workers, fh_pos, headers, chunk, i,
                   futures, results, k, tasks, staging, audit, report>>

\* df = pd.DataFrame(fuhandler.results); df.to_csv(...)
Report ==
    /\ pc = "report"
    /\ report' = results
    /\ pc' = "combine"
    /\ UNCHANGED <<sieve_vars, merge_vars>>
    /\ UNCHANGED <<file, chunk_size, max_workers, fh_pos, headers, chunk, i,
                   futures, results, k, tasks, staging, audit>>

\* ---- the merge: first_selection-v2.py's "Combine the outputs"
\* the orders in which a directory can list the files S
Orders(S) == {o \in SeqsOfLen(S, Cardinality(S)) : Range(o) = S}

\* an output file opened for appending
open_at(old) == old

\* bz2.open(output_file, 'wt'): the file starts empty
open_wt(old) == <<>>

\* a copy that never skips the first line
copied_lines_keeps_header(count, lines) == lines

\* if n > 0: next(input_fh); for line in input_fh: the lines copied from one
\* chunk file
copied_lines(count, lines) == IF count > 0 THEN Tail(lines) ELSE lines

\* n = 0; the output is opened; glob('*.bz2') lists the directory, in an
\* order that is the file system's and the same for an unchanged directory
CombineOpen ==
    /\ pc = "combine"
    /\ n_combined' = 0
    /\ merged' = open_wt(merged)
    /\ \E order \in Orders(DOMAIN staging) :
          /\ first_merge.ran => order = listing
          /\ listing' = order
          /\ todo' = order
    /\ pc' = "combining"
    /\ UNCHANGED sieve_vars
    /\ UNCHANGED <<file, chunk_size, max_workers, fh_pos, headers, chunk, i,
                   futures, results, k, tasks, staging, audit, report,
                   header_added, printed, first_merge>>

\* one round of the loop over the chunk files
CombineFile ==
    /\ pc = "combining"
    /\ todo # <<>>
    /\ LET lines == copied_lines(n_combined, staging[Head(todo)]) IN
        /\ merged' = merged \o lines
        /\ n_combined' = n_combined + Len(lines)
    /\ todo' = Tail(todo)
    /\ UNCHANGED sieve_vars
    /\ UNCHANGED <<file, chunk_size, max_workers, pc, fh_pos, headers, chunk, i,
                   futures, results, k, tasks, staging, audit, report,
                   listing, header_added, printed, first_merge>>

\* print(f"Combined output written to {output_file} - {n} lines")
CombinePrint ==
    /\ pc = "combining"
    /\ todo = <<>>
    /\ printed' = n_combined
    /\ pc' = "done"
    /\ UNCHANGED sieve_vars
    /\ UNCHANGED <<file, chunk_size, max_workers, fh_pos, headers, chunk, i,
                   futures, results, k, tasks, staging, audit, report,
                   listing, todo, merged, n_combined, header_added, first_merge>>

\* ---- the merge of second_pass.py
\* if not header_added: header = next(in_fh); out_fh.write(header);
\* for line in in_fh: out_fh.write(line): the lines written for one chunk file
sp_copied_lines(added, lines) ==
    IF ~added THEN <<Head(lines)>> \o Tail(lines) ELSE lines

\* header_added = False; the output is opened; the glob lists the directory
SecondPassOpen ==
    /\ pc = "sp_combine"
    /\ header_added' = FALSE
    /\ merged' = open_wt(merged)
    /\ \E order \in Orders(DOMAIN staging) :
          /\ first_merge.ran => order = listing
          /\ listing' = order
          /\ todo' = order
    /\ pc' = "sp_combining"
    /\ UNCHANGED sieve_vars
    /\ UNCHANGED <<file, chunk_size, max_workers, fh_pos, headers, chunk, i,
                   futures, results, k, tasks, staging, audit, report,
                   n_combined, printed, first_merge>>

SecondPassFile ==
    /\ pc = "sp_combining"
    /\ todo # <<>>
    /\ merged' = merged \o sp_copied_lines(header_added, staging[Head(todo)])
    /\ header_added' = TRUE
    /\ todo' = Tail(todo)
    /\ UNCHANGED sieve_vars
    /\ UNCHANGED <<file, chunk_size, max_workers, pc, fh_pos, headers, chunk, i,
                   futures, results, k, tasks, staging, audit, report,
                   listing, n_combined, printed, first_merge>>

\* the loop and the output's with block end
SecondPassEnd ==
    /\ pc = "sp_combining"
    /\ todo = <<>>
    /\ pc' = "sp_merged"
    /\ UNCHANGED sieve_vars
    /\ UNCHANGED <<file, chunk_size, max_workers, fh_pos, headers, chunk, i,
                   futures, results, k, tasks, staging, audit, report, merge_vars>>

\* shutil.rmtree('/tmp/second_pass')
SecondPassRmtree ==
    /\ pc = "sp_merged"
    /\ staging' = <<>>
    /\ pc' = "sp_done"
    /\ UNCHANGED sieve_vars
    /\ UNCHANGED <<file, chunk_size, max_workers, fh_pos, headers, chunk, i,
                   futures, results, k, tasks, audit, report, merge_vars>>

\* the merge is run a second time over the staging directory as it is
CombineAgain ==
    /\ pc \in {"done", "sp_merged"}
    /\ ~first_merge.ran
    /\ first_merge' = [ran |-> TRUE, merged |-> merged, printed |-> printed]
    /\ printed' = -1
    /\ pc' = IF pc = "done" THEN "combine" ELSE "sp_combine"
    /\ UNCHANGED sieve_vars
    /\ UNCHANGED <<file, chunk_size, max_workers, fh_pos, headers, chunk, i,
                   futures, results, k, tasks, staging, audit, report,
                   listing, todo, merged, n_combined, header_added>>

\* ---- process_chunk, run by a pool worker
Running == {t \in DOMAIN tasks : tasks[t].state \in {"classified", "written"}}

\* a free worker takes the task: the block is read and classified
TaskClassify(t) ==
    /\ tasks[t].state = "pending"
    /\ Cardinality(Running) < max_workers
    /\ tasks' = [tasks EXCEPT ![t].state = "classified",
                              ![t].verdicts = classify_df(tasks[t].chunk)]
    /\ UNCHANGED <<sieve_vars, merge_vars>>
    /\ UNCHANGED <<file, chunk_size, max_workers, pc, fh_pos, headers, chunk, i,
                   futures, results, k, staging, audit, report>>

\* a statement of process_chunk raises and the future holds the exception:
\* reading or classifying the block, a statement before the output is
\* written, or one between the output and the audit entry (the last
\* statement, return info, raises nothing)
TaskFails(t) ==
    /\ \/ tasks[t].state = "pending" /\ Cardinality(Running) < max_workers
       \/ tasks[t].state \in {"classified", "written"}
    /\ tasks' = [tasks EXCEPT ![t].state = "failed", ![t].verdicts = <<>>]
    /\ UNCHANGED <<sieve_vars, merge_vars>>
    /\ UNCHANGED <<file, chunk_size, max_workers, pc, fh_pos, headers, chunk, i,
                   futures, results, k, staging, audit, report>>

\* an output step that leaves the text in a file object it does not close
TaskWriteOutput_unflushed(t) ==
    /\ tasks[t].state = "classified"
    /\ tasks' = [tasks EXCEPT ![t].state = "written", ![t].wrote = TRUE]
    /\ UNCHANGED <<sieve_vars, merge_vars>>
    /\ UNCHANGED <<file, chunk_size, max_workers, pc, fh_pos, headers, chunk, i,
                   futures, results, k, staging, audit, report>>

\* if sum(verdicts.acceptable): ... with bz2.open(output_file, 'wt') as fh:
\* fh.write(txt); the file is closed when the with block ends
TaskWriteOutput(t) ==
    /\ tasks[t].state = "classified"
    /\ staging' =
          IF n_acceptable(tasks[t].verdicts) > 0
          THEN [j \in DOMAIN staging \cup {tasks[t].i} |->
                   IF j = tasks[t].i
                   THEN chunk_txt(tasks[t].headers, tasks[t].chunk, tasks[t].verdicts)
                   ELSE staging[j]]
          ELSE staging
    /\ tasks' = [tasks EXCEPT ![t].state = "written", ![t].wrote = TRUE]
    /\ UNCHANGED <<sieve_vars, merge_vars>>
    /\ UNCHANGED <<file, chunk_size, max_workers, pc, fh_pos, headers, chunk, i,
                   futures, results, k, audit, report>>

\* info = {...}; write_jsonl(info, 'results-backup.jsonl'); return info
TaskWriteAudit(t) ==
    /\ tasks[t].state = "written"
    /\ LET info == chunk_info(tasks[t].i, tasks[t].verdicts) IN
        /\ audit' = Append(audit, info)
        /\ tasks' = [tasks EXCEPT ![t].state = "done", ![t].info = info]
    /\ UNCHANGED <<sieve_vars, merge_vars>>
    /\ UNCHANGED <<file, chunk_size, max_workers, pc, fh_pos, headers, chunk, i,
                   futures, results, k, staging, report>>

PipeNext ==
    \/ ReadHeader
    \/ NextChunk
    \/ EndOfInput
    \/ Wait
    \/ ResolveOne
    \/ Schedule
    \/ PoolExit
    \/ Report
    \/ CombineOpen
    \/ CombineFile
    \/ CombinePrint
    \/ CombineAgain
    \/ \E t \in DOMAIN tasks : TaskClassify(t)
    \/ \E t \in DOMAIN tasks : TaskFails(t)
    \/ \E t \in DOMAIN tasks : TaskWriteOutput(t)
    \/ \E t \in DOMAIN tasks : TaskWriteAudit(t)

\* the sieve's variables while the file run is looked at
SieveParked ==
    /\ mode = "basic"
    /\ cutoffs = <<>>
    /\ df = <<>>
    /\ row_idx = 0
    /\ spc = "parked"
    /\ verdict = <<>>
    /\ exc = <<>>
    /\ out_verdicts = <<>>
    /\ nuveau_dejavu_synthons = <<>>
    /\ scorer_calls = <<>>
    /\ executed = <<>>
    /\ out_executed = <<>>
    /\ analysis = FALSE
    /\ normal_verdicts = <<>>
    /\ lower = <<>>
    /\ CompoundSieve_cutoffs = <<>>
    /\ other_own = NoAttr

PipeSpecInit == PipeInit /\ SieveParked

PipeSpec == PipeSpecInit /\ [][PipeNext]_vars

\* ---- a merge over a staging directory as some run has left it
\* the header line process_chunk writes: '\t'.join(headers) + '\n'
ArtifactHeaders == { <<join("\t", split(strip(h), "\t")) \o <<"\n">>>> : h \in HeaderLines }

\* the chunk files: the header line, then the rows of one or more accepted
\* records
Artifacts ==
    { h \o rows : h \in ArtifactHeaders,
                  rows \in UNION { SeqsOfLen({out_row(<<"a", "\n">>), out_row(<<"c", "\n">>)}, m)
                                     : m \in 1..MaxArtifactRows } }

\* the staging directories: chunk files by chunk index
StagingDirs == UNION { [idx -> Artifacts] : idx \in SUBSET (0..(MaxArtifacts - 1)) }

MergeInit ==
    /\ file = <<>>
    /\ chunk_size = 1
    /\ max_workers = 1
    /\ pc \in {"combine", "sp_combine"}
    /\ fh_pos = 0
    /\ headers = <<>>
    /\ chunk = <<>>
    /\ i = -1
    /\ futures = <<>>
    /\ results = <<>>
    /\ k = 0
    /\ tasks = <<>>
    /\ staging \in StagingDirs
    /\ audit = <<>>
    /\ report = <<>>
    /\ MergeVarsInit

MergeNext ==
    \/ CombineOpen
    \/ CombineFile
    \/ CombinePrint
    \/ SecondPassOpen
    \/ SecondPassFile
    \/ SecondPassEnd
    \/ SecondPassRmtree
    \/ CombineAgain

MergeSpecInit == MergeInit /\ SieveParked

MergeSpec == MergeSpecInit /\ [][MergeNext]_vars

\* ------------------------------------------------ properties of the run
\* the futures a drain has resolved: those no longer in the list, and those
\* the running drain has passed
Resolved ==
    (DOMAIN tasks \ Range(futures))
        \cup (IF pc = "resolve" THEN {futures[j] : j \in 1..(k - 1)} ELSE {})

\* dispatched and not yet resolved
InFlight == DOMAIN tasks \ Resolved

AfterLoop == pc \in {"pool_exit", "report", "combine", "combining", "done"}

\* C1: at any point of the run the number of in-flight chunk tasks (futures
\* dispatched and not yet resolved by a drain) is at most max_workers; the
\* list of futures itself never grows beyond max_workers.
C1_BackpressureBound ==
    /\ Cardinality(InFlight) <= max_workers
    /\ Len(futures) <= max_workers

\* a drain has happened and the next chunk was dispatched after it
C1_Witness ==
    /\ max_workers = 2
    /\ Len(tasks) > max_workers
    /\ Cardinality(InFlight) = 1

\* C2: when the result collection is turned into the summary report, every
\* dispatched chunk whose task succeeded has its summary in the results.
C2_FinalDrain ==
    pc \in {"report", "combine", "combining", "done"} =>
        \A t \in DOMAIN tasks :
            tasks[t].state = "done" =>
                \E j \in DOMAIN results : results[j] = tasks[t].info

\* C3: a failed task is caught by resolve: the coordinator does not stop,
\* nothing enters the results for the failed chunk, every other future of
\* the drain is resolved (a succeeded one has its summary in the results
\* exactly once), every succeeded chunk keeps its audit entry and its output
\* file, and all later chunks are still dispatched.
C3_FaultIsolation ==
    /\ pc # "crashed"
    /\ \A t \in DOMAIN tasks :
          tasks[t].state = "done" =>
              /\ Cardinality({j \in DOMAIN audit : audit[j].chunk_idx = tasks[t].i}) = 1
              /\ (\E j \in DOMAIN tasks[t].chunk : tasks[t].chunk[j][1] = "a")
                     => tasks[t].i \in DOMAIN staging
    /\ \A j \in DOMAIN results :
          \E t \in Resolved : tasks[t].state = "done" /\ results[j] = tasks[t].info
    /\ \A t \in Resolved :
          Cardinality({j \in DOMAIN results : results[j].chunk_idx = tasks[t].i})
              = (IF tasks[t].state = "done" THEN 1 ELSE 0)
    /\ AfterLoop => Len(tasks) * chunk_size >= Len(file) - 1

\* a drain resolved a failed task and a succeeded one after it, and a later
\* chunk was dispatched
C3_Witness ==
    \E s, t \in Resolved :
        /\ s < t
        /\ tasks[s].state = "failed"
        /\ tasks[t].state = "done"
        /\ \E j \in DOMAIN results : results[j] = tasks[t].info
        /\ Len(tasks) > t

\* the chunks yielded so far, in yield order
Yielded ==
    [j \in DOMAIN tasks |-> tasks[j].chunk]
        \o (IF pc \in {"wait", "resolve", "schedule", "crashed"} THEN <<chunk>> ELSE <<>>)

\* C4: the chunks yielded by chunked_iterator, concatenated in yield order,
\* are the record stream read so far, and the whole record stream once the
\* iterator is exhausted.
C4_ChunkingComplete ==
    /\ Concat(Yielded) = SubSeq(file, 2, fh_pos)
    /\ AfterLoop => Concat(Yielded) = Tail(file)

\* the stream was cut into several chunks, the last one shorter
C4_Witness ==
    /\ pc = "done"
    /\ Len(tasks) >= 2
    /\ Len(tasks[Len(tasks)].chunk) < chunk_size

\* C5: the first line is consumed once as the header before chunking: it
\* is in no chunk and the first chunk starts at the second line; every
\* dispatched task gets the same header, which is the first line's fields;
\* the chunk indices are distinct and increase in dispatch order.
C5_HeaderOnce ==
    /\ \A t \in DOMAIN tasks :
          /\ tasks[t].headers = headers
          /\ join("\t", tasks[t].headers) = strip(file[1])
          /\ file[1] \notin Range(tasks[t].chunk)
    /\ Len(tasks) >= 1 => tasks[1].chunk[1] = file[2]
    /\ \A s, t \in DOMAIN tasks : s < t => tasks[s].i < tasks[t].i

\* two chunks were dispatched
C5_Witness == Len(tasks) >= 2 /\ tasks[2].headers = headers

\* ---------------------------------------------------- compound_sieve.py
\* Numbers are exact fractions <<numerator, denominator>>, the denominator
\* positive, in lowest terms.
Abs(x) == IF x < 0 THEN -x ELSE x

RECURSIVE GCD(_, _)
GCD(a, b) == IF b = 0 THEN a ELSE GCD(b, a % b)

Frac(n, d) ==
    LET sn == IF d < 0 THEN -n ELSE n
        sd == Abs(d)
        g == GCD(Abs(sn), sd)
    IN <<sn \div g, sd \div g>>

R(n) == <<n, 1>>
RAdd(a, b) == Frac(a[1] * b[2] + b[1] * a[2], a[2] * b[2])
RSub(a, b) == Frac(a[1] * b[2] - b[1] * a[2], a[2] * b[2])
RMul(a, b) == Frac(a[1] * b[1], a[2] * b[2])
\* a / b for b # 0
RDiv(a, b) == Frac(a[1] * b[2], a[2] * b[1])
RLt(a, b) == a[1] * b[2] < b[1] * a[2]
RGt(a, b) == RLt(b, a)

\* float('inf'), and the order with it
Inf == <<1, 0>>
IsInf(a) == a[2] = 0
Less(a, b) == IF IsInf(a) THEN FALSE ELSE IF IsInf(b) THEN TRUE ELSE RLt(a, b)
Greater(a, b) == Less(b, a)

\* verdict[key] = value
Put(m, key, value) == (key :> value) @@ m

\* exceptions
NoExc == [kind |-> "none", type |-> "", msg |-> ""]
BadCompound(msg) == [kind |-> "BadCompound", type |-> "BadCompound", msg |-> msg]
Raised(type, msg) == [kind |-> "Exception", type |-> type, msg |-> msg]
ZeroDivisionError == Raised("ZeroDivisionError", "division by zero")

\* a cutoff key 'min_N_rings' is the pair <<"min", "N_rings">>: key[:3] is
\* its first part and key[4:] its second
Rule(key3, metric, value) == [key |-> <<key3, metric>>, value |-> value]

\* CompoundSieve.cutoffs, the class attribute
class_cutoffs ==
    << Rule("min", "N_rings", R(1)),
       Rule("max", "N_methylene", R(6)),
       Rule("max", "N_protection_groups", R(0)),
       Rule("max", "largest_ring_size", R(8)),
       Rule("min", "hbonds_per_HAC", Frac(1, 5)),
       Rule("max", "rota_per_HAC", Frac(1, 5)),
       Rule("min", "synthon_sociability_per_HAC", Frac(354839, 1000000)),
       Rule("min", "synthon_score_per_HAC", Frac(138470, 1000000)),
       Rule("max", "boringness", Frac(1, 10)),
       Rule("min", "combined_Zscore", R(0)) >>

\* cutoffs[key] = value on a dictionary: an old key keeps its place, a new
\* one goes last
RECURSIVE set_cutoff(_, _, _, _)
set_cutoff(rules, key3, metric, value) ==
    IF rules = <<>> THEN <<Rule(key3, metric, value)>>
    ELSE IF Head(rules).key = <<key3, metric>>
    THEN <<Rule(key3, metric, value)>> \o Tail(rules)
    ELSE <<Head(rules)>> \o set_cutoff(Tail(rules), key3, metric, value)

\* the class attribute after second_pass.py's assignments
second_pass_cutoffs ==
    set_cutoff(
     set_cutoff(
      set_cutoff(
       set_cutoff(
        set_cutoff(class_cutoffs, "min", "hbonds_per_HAC", Frac(1, 5)),
        "max", "rota_per_HAC", Frac(1, 5)),
       "min", "synthon_sociability_per_HAC", Frac(354839, 1000000)),
      "min", "weighted_robogroups_per_HAC", Frac(838, 10000)),
     "max", "boringness", R(0))

\* the class attribute after a caller's assignment of a minimum below zero
\* (a calibration that lets through records whose fragments cannot be scored)
lenient_cutoffs ==
    set_cutoff(class_cutoffs, "min", "synthon_sociability_per_HAC", Frac(-1, 5))

CutoffTables == {class_cutoffs, second_pass_cutoffs, lenient_cutoffs}

\* an analysis mode that exchanges the two bounds
enable_analysis_mode_swapped(rules) ==
    [j \in DOMAIN rules |->
        Rule(rules[j].key[1], rules[j].key[2],
             IF rules[j].key[1] = "min" THEN Inf ELSE R(0))]

\* enable_analysis_mode: {k: {'min': 0, 'max': float('inf')}[k[:3]] for k, v in ...}
enable_analysis_mode(rules) ==
    [j \in DOMAIN rules |->
        Rule(rules[j].key[1], rules[j].key[2],
             IF rules[j].key[1] = "min" THEN R(0) ELSE Inf)]

\* self.cutoffs: the object's own attribute if it has one, or else the
\* class attribute
lookup(own, cls) == IF own.has THEN own.table ELSE cls

\* an analysis mode that rewrites the values of the dictionary self.cutoffs
\* names, key by key
enable_analysis_mode_in_place(own, cls) ==
    IF own.has
    THEN [own |-> [has |-> TRUE, table |-> enable_analysis_mode(own.table)], cls |-> cls]
    ELSE [own |-> own, cls |-> enable_analysis_mode(cls)]

\* self.cutoffs = {...}: the new dictionary is bound in the object's own
\* __dict__; the object's own attribute and the class attribute after it
enable_analysis_mode_self(own, cls) ==
    [own |-> [has |-> TRUE, table |-> enable_analysis_mode(lookup(own, cls))],
     cls |-> cls]

Modes == {"basic", "substructure", "synthon_v2", "synthon_v3"}

\* the unwanted patterns, in the dictionary's order
unwanted ==
    <<"carbamate", "exocyclic ester", "exocyclic imine", "alkane", "hydrazine">>

\* the wanted patterns and their weights, in the dictionary's order
wanted ==
    <<"amide", "sulfonamide", "biaryl", "secondary amine", "substituted aza">>

wanted_weights ==
    [amide |-> R(1), sulfonamide |-> R(5), biaryl |-> R(5)]
        @@ ("secondary amine" :> Frac(3, 10)) @@ ("substituted aza" :> Frac(3, 10))

\* ---- the molecules: what the chemistry library answers for each
\* a fragment from the decomposition: its InChI, its heavy atoms, whether
\* EmbedMolecule gives it a conformer, and what the similarity scorer says
SynA == [inchi |-> "A", hac |-> 5, conformers |-> 1, score |-> 3]
\* the fragment of SynA met again: another embedding, another USRCAT score
SynA_again == [SynA EXCEPT !.score = 4]
SynB == [inchi |-> "B", hac |-> 4, conformers |-> 1, score |-> 2]
SynSmall == [inchi |-> "C", hac |-> 2, conformers |-> 1, score |-> 1]
SynFlat == [inchi |-> "D", hac |-> 6, conformers |-> 0, score |-> 1]
\* the fragment of SynFlat met again: this time EmbedMolecule finds a conformer
SynFlat_embedded == [SynFlat EXCEPT !.conformers = 1]
SynFlat_again == [SynFlat_embedded EXCEPT !.score = 2]

GoodMol ==
    [valid |-> TRUE,
     N_rings |-> 2, N_methylene |-> 1, N_ring_atoms |-> 9,
     largest_ring_size |-> 6, N_protection_groups |-> 0,
     N_spiro |-> 0, N_bridgehead |-> 0, N_alicyclics |-> 1, N_fused_rings |-> 0,
     N_heterocyclics |-> 1, N_aromatic_carbocylics |-> 1,
     matches |-> {}, pains |-> FALSE,
     decomposes |-> TRUE, synthons |-> <<SynA, SynB, SynSmall>>,
     synthon_score |-> 3,
     wanted |-> [amide |-> 2, sulfonamide |-> 0, biaryl |-> 0]
                   @@ ("secondary amine" :> 1) @@ ("substituted aza" :> 0)]

\* Chem.MolFromSmiles(...) of a string it cannot parse: None
NoneMol == [GoodMol EXCEPT !.valid = FALSE]

GoodRow == [HBonds |-> 3, HAC |-> 10, Rotatable_Bonds |-> 1, MW |-> 150, mol |-> GoodMol]

\* the rows a DataFrame is made of: the good row, rows with other table
\* columns, and the good row's columns with other molecules
Rows ==
    << GoodRow,
       [GoodRow EXCEPT !.HAC = 0],
       [GoodRow EXCEPT !.HBonds = 1, !.Rotatable_Bonds = 3],
       [GoodRow EXCEPT !.HBonds = 2, !.Rotatable_Bonds = 2],
       [GoodRow EXCEPT !.mol = NoneMol],
       [GoodRow EXCEPT !.mol = [GoodMol EXCEPT !.N_rings = 0, !.N_methylene = 7]],
       [GoodRow EXCEPT !.mol = [GoodMol EXCEPT !.N_aromatic_carbocylics = 3,
                                               !.matches = {"hydrazine", "carbamate"}]],
       [GoodRow EXCEPT !.mol = [GoodMol EXCEPT !.matches = {"hydrazine", "carbamate"}]],
       [GoodRow EXCEPT !.mol = [GoodMol EXCEPT !.pains = TRUE]],
       [GoodRow EXCEPT !.mol = [GoodMol EXCEPT !.synthon_score = 0,
                                   !.wanted = [w \in DOMAIN GoodMol.wanted |-> 0]]],
       [GoodRow EXCEPT !.mol = [GoodMol EXCEPT !.synthons = <<SynA, SynFlat, SynA_again>>]],
       [GoodRow EXCEPT !.mol = [GoodMol EXCEPT !.decomposes = FALSE]],
       [GoodRow EXCEPT !.mol = [GoodMol EXCEPT !.synthons = <<SynSmall>>]],
       [GoodRow EXCEPT !.mol = [GoodMol EXCEPT
           !.synthons = <<SynFlat, SynFlat_embedded, SynFlat_again>>]] >>

\* the rows the frames of more than one row are made of: the good row, the
\* row without heavy atoms, a row with an unwanted pattern, and the rows
\* whose fragments are scored more than once or not at all
MixRows == {1, 2, 8, 11, 13}

\* ---- the stages: each gives the verdict's metrics after it and the
\* exception it raised, if any
Ok(m) == [m |-> m, exc |-> NoExc]
Fail(m, e) == [m |-> m, exc |-> e]

\* the row of a frame with a text column holds Python numbers, whose
\* division by zero raises
calc_row_info(row, m) ==
    LET m1 == Put(m, "hbonds", R(row.HBonds))
        m2 == Put(m1, "HAC", R(row.HAC))
    IN IF row.HAC = 0 THEN Fail(m2, ZeroDivisionError)
       ELSE LET m3 == Put(m2, "hbonds_per_HAC", RDiv(R(row.HBonds), R(row.HAC)))
            IN IF row.MW = 0 THEN Fail(m3, ZeroDivisionError)
               ELSE Ok(Put(Put(m3, "rota_per_da", RDiv(R(row.Rotatable_Bonds), R(row.MW))),
                           "rota_per_HAC", RDiv(R(row.Rotatable_Bonds), R(row.HAC))))

\* a check that rejects a value equal to its threshold
RECURSIVE assess_inclusive(_, _)
assess_inclusive(rules, m) ==
    IF rules = <<>> THEN NoExc
    ELSE LET key == Head(rules).key
             value == Head(rules).value
         IN IF key[2] \notin DOMAIN m THEN assess_inclusive(Tail(rules), m)
            ELSE IF key[1] = "min" /\ ~Greater(m[key[2]], value)
            THEN BadCompound(<<key[2], " too low">>)
            ELSE IF key[1] = "max" /\ ~Less(m[key[2]], value)
            THEN BadCompound(<<key[2], " too high">>)
            ELSE assess_inclusive(Tail(rules), m)

\* a check that looks every rule's metric up without asking whether the
\* verdict holds it
RECURSIVE assess_strict(_, _)
assess_strict(rules, m) ==
    IF rules = <<>> THEN NoExc
    ELSE LET key == Head(rules).key
             value == Head(rules).value
         IN IF key[2] \notin DOMAIN m THEN Raised("KeyError", key[2])
            ELSE IF key[1] = "min" /\ Less(m[key[2]], value)
            THEN BadCompound(<<key[2], " too low">>)
            ELSE IF key[1] = "max" /\ Greater(m[key[2]], value)
            THEN BadCompound(<<key[2], " too high">>)
            ELSE assess_strict(Tail(rules), m)

\* assess: the rules from the first on, in order
RECURSIVE assess(_, _)
assess(rules, m) ==
    IF rules = <<>> THEN NoExc
    ELSE LET key == Head(rules).key
             value == Head(rules).value
         IN IF key[2] \notin DOMAIN m THEN assess(Tail(rules), m)
            ELSE IF key[1] = "min" /\ Less(m[key[2]], value)
            THEN BadCompound(<<key[2], " too low">>)
            ELSE IF key[1] = "max" /\ Greater(m[key[2]], value)
            THEN BadCompound(<<key[2], " too high">>)
            ELSE assess(Tail(rules), m)

ArgumentError == Raised("ArgumentError", "Python argument types did not match C++ signature")

calc_mol_info(mol, m) ==
    IF ~mol.valid THEN Fail(m, ArgumentError)
    ELSE Ok(Put(Put(Put(Put(Put(m,
            "N_rings", R(mol.N_rings)),
            "N_methylene", R(mol.N_methylene)),
            "N_ring_atoms", R(mol.N_ring_atoms)),
            "largest_ring_size", R(mol.largest_ring_size)),
            "N_protection_groups", R(mol.N_protection_groups)))

\* sum(map(verdict.get, keys))
RECURSIVE sum_keys(_, _)
sum_keys(m, keys) ==
    IF keys = <<>> THEN R(0) ELSE RAdd(m[Head(keys)], sum_keys(m, Tail(keys)))

calc_boringness(mol, m) ==
    LET m1 == Put(Put(Put(Put(Put(Put(Put(m,
                "N_spiro", R(mol.N_spiro)),
                "N_bridgehead", R(mol.N_bridgehead)),
                "N_alicyclics", R(mol.N_alicyclics)),
                "N_fused_rings", R(mol.N_fused_rings)),
                "N_heterocyclics", R(mol.N_heterocyclics)),
                "N_aromatic_carbocylics", R(mol.N_aromatic_carbocylics)),
                "N_methylene", R(mol.N_methylene))
        boringness ==
            RSub(RSub(RAdd(sum_keys(m1, <<"N_aromatic_carbocylics">>),
                           RDiv(m1["N_methylene"], R(4))),
                      sum_keys(m1, <<"N_spiro", "N_bridgehead", "N_alicyclics",
                                     "N_fused_rings">>)),
                 RDiv(m1["N_heterocyclics"], R(2)))
        m2 == Put(m1, "boringness", boringness)
    IN IF m2["HAC"][1] = 0 THEN Fail(m2, ZeroDivisionError)
       ELSE Ok(Put(m2, "boringness_per_HAC", RDiv(boringness, m2["HAC"])))

\* assess_mol_patterns: the unwanted patterns from the first on, then PAINS
RECURSIVE first_unwanted(_, _)
first_unwanted(names, mol) ==
    IF names = <<>> THEN ""
    ELSE IF Head(names) \in mol.matches THEN Head(names)
    ELSE first_unwanted(Tail(names), mol)

assess_mol_patterns(mol, m) ==
    IF first_unwanted(unwanted, mol) # ""
    THEN BadCompound(<<"Contains ", first_unwanted(unwanted, mol)>>)
    ELSE IF mol.pains THEN BadCompound(<<"PAINS">>)
    ELSE NoExc

\* calc_synthon_info (version 3)
calc_synthon_info(mol, m) ==
    IF ~mol.decomposes THEN Fail(m, Raised("RuntimeError", "decomposition failed"))
    ELSE LET synthons == SelectSeq(mol.synthons, LAMBDA s : s.hac > 2)
             m1 == Put(Put(m, "N_synthons", R(Len(synthons))),
                       "synthon_score", R(mol.synthon_score))
         IN IF m1["HAC"][1] = 0 THEN Fail(m1, ZeroDivisionError)
            ELSE Ok(Put(m1, "synthon_score_per_HAC", RDiv(m1["synthon_score"], m1["HAC"])))

\* score_weights, ref_means and ref_stds, in score_weights' order: the key,
\* the key without '_per_HAC', the weight in hundredths, and the reference
\* mean and standard deviation in thousandths (rounded)
score_table ==
    << [key |-> "synthon_score_per_HAC", base |-> "synthon_score", w |-> 100, mean |-> 215, std |-> 114],
       [key |-> "hbonds_per_HAC", base |-> "hbonds", w |-> 100, mean |-> 244, std |-> 70],
       [key |-> "rota_per_HAC", base |-> "rota", w |-> -100, mean |-> 232, std |-> 78],
       [key |-> "N_synthons_per_HAC", base |-> "N_synthons", w |-> 100, mean |-> 126, std |-> 32],
       [key |-> "N_spiro_per_HAC", base |-> "N_spiro", w |-> 20, mean |-> 3, std |-> 11],
       [key |-> "N_bridgehead_per_HAC", base |-> "N_bridgehead", w |-> 20, mean |-> 5, std |-> 20],
       [key |-> "N_alicyclics_per_HAC", base |-> "N_alicyclics", w |-> 20, mean |-> 59, std |-> 42],
       [key |-> "N_fused_rings_per_HAC", base |-> "N_fused_rings", w |-> 20, mean |-> 16, std |-> 29],
       [key |-> "N_aromatic_carbocylics_per_HAC", base |-> "N_aromatic_carbocylics", w |-> -20, mean |-> 19, std |-> 25],
       [key |-> "N_heterocyclics_per_HAC", base |-> "N_heterocyclics", w |-> 10, mean |-> 70, std |-> 38],
       [key |-> "N_methylene_per_HAC", base |-> "N_methylene", w |-> -5, mean |-> 81, std |-> 61] >>

\* a fraction in thousandths, rounded down
Milli(r) == (r[1] * 1000) \div r[2]

\* calc_score's first loop: the per-HAC values not yet in the verdict
RECURSIVE fill_per_HAC(_, _)
fill_per_HAC(table, m) ==
    IF table = <<>> THEN Ok(m)
    ELSE LET e == Head(table) IN
         IF e.key \in DOMAIN m THEN fill_per_HAC(Tail(table), m)
         ELSE IF e.base \notin DOMAIN m THEN Fail(m, Raised("KeyError", e.base))
         ELSE IF m["HAC"][1] = 0 THEN Fail(m, ZeroDivisionError)
         ELSE fill_per_HAC(Tail(table), Put(m, e.key, RDiv(m[e.base], m["HAC"])))

\* the weighted sum of Z-scores, in units of 1/100000
RECURSIVE zscore_sum(_, _)
zscore_sum(table, m) ==
    IF table = <<>> THEN 0
    ELSE LET e == Head(table) IN
         e.w * (((Milli(m[e.key]) - e.mean) * 1000) \div e.std)
             + zscore_sum(Tail(table), m)

calc_score(mol, m) ==
    LET filled == fill_per_HAC(score_table, m) IN
    IF filled.exc.kind # "none" THEN filled
    ELSE Ok(Put(filled.m, "combined_Zscore", Frac(zscore_sum(score_table, filled.m), 100000)))

\* ---- the version 2 stages
\* f'N_{name}'
n_key(name) ==
    CASE name = "amide" -> "N_amide"
      [] name = "sulfonamide" -> "N_sulfonamide"
      [] name = "biaryl" -> "N_biaryl"
      [] name = "secondary amine" -> "N_secondary amine"
      [] name = "substituted aza" -> "N_substituted aza"

RECURSIVE robogroups_from(_, _, _)
robogroups_from(names, mol, m) ==
    IF names = <<>> THEN m
    ELSE LET name == Head(names)
             m1 == Put(m, n_key(name), R(mol.wanted[name]))
             m2 == Put(m1, "synthon_score",
                       RAdd(m1["synthon_score"], RMul(m1[n_key(name)], wanted_weights[name])))
         IN robogroups_from(Tail(names), mol, m2)

calc_robogroups(mol, m) ==
    LET m1 == robogroups_from(wanted, mol, Put(m, "synthon_score", R(0))) IN
    IF m1["HAC"][1] = 0 THEN Fail(m1, ZeroDivisionError)
    ELSE Ok(Put(m1, "synthon_score_per_HAC", RDiv(m1["synthon_score"], m1["HAC"])))

\* self.dejavu_synthons: made empty by __init__ and written nowhere
dejavu_synthons == <<>>

\* a calc_sociability that does not look the fragment up
calc_sociability_no_lookup(synthon, cache) ==
    IF synthon.hac < 3 \/ synthon.conformers = 0
    THEN [value |-> -1, cache |-> cache, scored |-> FALSE]
    ELSE [value |-> synthon.score,
          cache |-> Put(cache, synthon.inchi, synthon.score),
          scored |-> TRUE]

\* calc_sociability: the value returned, the cache after the call, and
\* whether calc_summed_scores was called; the score is that of the conformer
\* embedded in this call
calc_sociability(synthon, cache) ==
    IF synthon.inchi \in DOMAIN dejavu_synthons
    THEN [value |-> dejavu_synthons[synthon.inchi], cache |-> cache, scored |-> FALSE]
    ELSE IF synthon.inchi \in DOMAIN cache
    THEN [value |-> cache[synthon.inchi], cache |-> cache, scored |-> FALSE]
    ELSE IF synthon.hac < 3 \/ synthon.conformers = 0
    THEN [value |-> -1, cache |-> cache, scored |-> FALSE]
    ELSE [value |-> synthon.score,
          cache |-> Put(cache, synthon.inchi, synthon.score),
          scored |-> TRUE]

\* sum([self.calc_sociability(synthon) for synthon in synthons]), with the
\* calls it made
RECURSIVE sum_sociability(_, _)
sum_sociability(synthons, cache) ==
    IF synthons = <<>> THEN [value |-> 0, cache |-> cache, calls |-> <<>>]
    ELSE LET one == calc_sociability(Head(synthons), cache)
             rest == sum_sociability(Tail(synthons), one.cache)
         IN [value |-> one.value + rest.value, cache |-> rest.cache,
             calls |-> <<[inchi |-> Head(synthons).inchi, value |-> one.value,
                          scored |-> one.scored]>> \o rest.calls]

\* calc_synthon_info_old: the stage's result, and the cache after it
calc_synthon_info_old(mol, m, cache) ==
    IF ~mol.decomposes
    THEN [m |-> m, exc |-> Raised("RuntimeError", "decomposition failed"),
          cache |-> cache, calls |-> <<>>]
    ELSE LET total == sum_sociability(mol.synthons, cache)
             m1 == Put(Put(m, "N_synthons", R(Len(mol.synthons))),
                       "synthon_sociability", R(total.value))
         IN IF m1["HAC"][1] = 0
            THEN [m |-> m1, exc |-> ZeroDivisionError, cache |-> total.cache,
                  calls |-> total.calls]
            ELSE [m |-> Put(m1, "synthon_sociability_per_HAC",
                            RDiv(m1["synthon_sociability"], m1["HAC"])),
                  exc |-> NoExc, cache |-> total.cache, calls |-> total.calls]

\* ---- CompoundSieve.__call__, statement by statement, under classify_df
At(e, label) == [kind |-> e.kind, type |-> e.type, msg |-> e.msg, at |-> label]

\* verdict = {'acceptable': False, 'issue': ''}; the metrics are kept apart
\* in m
NewVerdict == [acceptable |-> FALSE, issue |-> <<>>, m |-> <<>>]

\* the DataFrames classify_df is given: the places in Rows of their rows
Batches ==
    SeqsOfLen(DOMAIN Rows, 1) \cup UNION { SeqsOfLen(MixRows, n) : n \in 2..MaxBatch }

\* no earlier sieve has classified the frame
NoRun == [mode |-> "", executed |-> <<>>, verdicts |-> <<>>]

SieveInit ==
    /\ mode \in Modes
    /\ CompoundSieve_cutoffs \in CutoffTables
    /\ cutoffs = CompoundSieve_cutoffs
    /\ other_own = NoAttr
    /\ df \in Batches
    /\ row_idx = 0
    /\ spc = "idle"
    /\ verdict = NewVerdict
    /\ exc = At(NoExc, "")
    /\ out_verdicts = <<>>
    /\ nuveau_dejavu_synthons = <<>>
    /\ scorer_calls = <<>>
    /\ executed = <<>>
    /\ out_executed = <<>>
    /\ analysis = FALSE
    /\ normal_verdicts = <<>>
    /\ lower = NoRun

row == Rows[df[row_idx]]

\* a statement whose exception does not stop the try block
Statement_goes_on(label, stage, m, e, next) ==
    /\ spc = label
    /\ executed' = Append(executed, stage)
    /\ UNCHANGED out_executed
    /\ verdict' = [verdict EXCEPT !.m = m]
    /\ spc' = next
    /\ exc' = IF e.kind = "none" THEN exc ELSE At(e, stage)
    /\ UNCHANGED <<pipe_vars, history_vars>>
    /\ UNCHANGED <<mode, cutoffs, df, row_idx, out_verdicts>>

\* a statement of the try block: on an exception control goes to the
\* except clauses, with whatever the statement had put into the verdict
Statement(label, stage, m, e, next) ==
    /\ spc = label
    /\ executed' = Append(executed, stage)
    /\ UNCHANGED out_executed
    /\ verdict' = [verdict EXCEPT !.m = m]
    /\ IF e.kind = "none"
       THEN spc' = next /\ exc' = exc
       ELSE spc' = "except" /\ exc' = At(e, stage)
    /\ UNCHANGED <<pipe_vars, history_vars>>
    /\ UNCHANGED <<mode, cutoffs, df, row_idx, out_verdicts>>

\* df.apply(self, axis=1): __call__ on the next row
StartCall ==
    /\ spc = "idle"
    /\ row_idx < Len(df)
    /\ row_idx' = row_idx + 1
    /\ verdict' = NewVerdict
    /\ exc' = At(NoExc, "")
    /\ spc' = "calc_row_info"
    /\ executed' = <<>>
    /\ UNCHANGED out_executed
    /\ UNCHANGED <<pipe_vars, history_vars>>
    /\ UNCHANGED <<mode, cutoffs, df, out_verdicts, cache_vars>>

CalcRowInfo ==
    /\ LET got == calc_row_info(row, verdict.m) IN
        Statement("calc_row_info", "calc_row_info", got.m, got.exc, "assess_row_info")
    /\ UNCHANGED cache_vars

\* a __call__ that goes from the structural cutoff check straight to the
\* pattern check
after_assess_patterns_next ==
    [assess_row_info |-> "if_basic",
     assess_mol_info |-> "assess_mol_patterns",
     assess_boringness |-> "assess_mol_patterns",
     assess_robogroups |-> "calc_synthon_info_old",
     assess_synthon_info_old |-> "else",
     assess_synthon_info |-> "calc_score"]

\* the statement after each self.assess(verdict)
after_assess ==
    [assess_row_info |-> "if_basic",
     assess_mol_info |-> "calc_boringness",
     assess_boringness |-> "assess_mol_patterns",
     assess_robogroups |-> "calc_synthon_info_old",
     assess_synthon_info_old |-> "else",
     assess_synthon_info |-> "calc_score"]

\* self.assess(verdict)
Assess ==
    /\ spc \in DOMAIN after_assess
    /\ Statement(spc, spc, verdict.m, assess(cutoffs, verdict.m), after_assess[spc])
    /\ UNCHANGED cache_vars

\* if self.mode == SieveMode.basic: verdict['acceptable'] = True; return
ReturnBasic ==
    /\ UNCHANGED <<executed, out_executed>>
    /\ spc = "if_basic"
    /\ mode = "basic"
    /\ verdict' = [verdict EXCEPT !.acceptable = TRUE]
    /\ spc' = "return"
    /\ UNCHANGED <<pipe_vars, history_vars>>
    /\ UNCHANGED <<mode, cutoffs, df, row_idx, exc, out_verdicts, cache_vars>>

\* mol = ...; self.calc_mol_info(mol, verdict)
CalcMolInfo ==
    /\ mode # "basic"
    /\ LET got == calc_mol_info(row.mol, verdict.m) IN
        Statement("if_basic", "calc_mol_info", got.m, got.exc, "assess_mol_info")
    /\ UNCHANGED cache_vars

CalcBoringness ==
    /\ LET got == calc_boringness(row.mol, verdict.m) IN
        Statement("calc_boringness", "calc_boringness", got.m, got.exc, "assess_boringness")
    /\ UNCHANGED cache_vars

\* a pattern check that only the substructure mode makes
AssessMolPatterns_substructure_only ==
    IF mode = "substructure"
    THEN /\ Statement("assess_mol_patterns", "assess_mol_patterns", verdict.m,
                      assess_mol_patterns(row.mol, verdict.m), "if_substructure")
         /\ UNCHANGED cache_vars
    ELSE /\ spc = "assess_mol_patterns"
         /\ spc' = "if_substructure"
         /\ UNCHANGED <<pipe_vars, history_vars>>
         /\ UNCHANGED <<mode, cutoffs, df, row_idx, verdict, exc, out_verdicts,
                        cache_vars, executed, out_executed>>

AssessMolPatterns ==
    /\ Statement("assess_mol_patterns", "assess_mol_patterns", verdict.m,
                 assess_mol_patterns(row.mol, verdict.m), "if_substructure")
    /\ UNCHANGED cache_vars

\* if self.mode == SieveMode.substructure: verdict['acceptable'] = True; return
ReturnSubstructure ==
    /\ UNCHANGED <<executed, out_executed>>
    /\ spc = "if_substructure"
    /\ mode = "substructure"
    /\ verdict' = [verdict EXCEPT !.acceptable = TRUE]
    /\ spc' = "return"
    /\ UNCHANGED <<pipe_vars, history_vars>>
    /\ UNCHANGED <<mode, cutoffs, df, row_idx, exc, out_verdicts, cache_vars>>

CalcRobogroups ==
    /\ mode = "synthon_v2"
    /\ LET got == calc_robogroups(row.mol, verdict.m) IN
        Statement("if_substructure", "calc_robogroups", got.m, got.exc, "assess_robogroups")
    /\ UNCHANGED cache_vars

CalcSynthonInfoOld ==
    /\ LET got == calc_synthon_info_old(row.mol, verdict.m, nuveau_dejavu_synthons) IN
        /\ Statement("calc_synthon_info_old", "calc_synthon_info_old", got.m, got.exc, "assess_synthon_info_old")
        /\ nuveau_dejavu_synthons' = got.cache
        /\ scorer_calls' = scorer_calls \o got.calls

CalcSynthonInfo ==
    /\ mode = "synthon_v3"
    /\ LET got == calc_synthon_info(row.mol, verdict.m) IN
        Statement("if_substructure", "calc_synthon_info", got.m, got.exc, "assess_synthon_info")
    /\ UNCHANGED cache_vars

CalcScore ==
    /\ LET got == calc_score(row.mol, verdict.m) IN
        Statement("calc_score", "calc_score", got.m, got.exc, "else")
    /\ UNCHANGED cache_vars

\* except BadCompound as e: verdict['issue'] = str(e); return verdict
ExceptBadCompound ==
    /\ UNCHANGED <<executed, out_executed>>
    /\ spc = "except"
    /\ exc.kind = "BadCompound"
    /\ verdict' = [verdict EXCEPT !.issue = exc.msg]
    /\ spc' = "return"
    /\ UNCHANGED <<pipe_vars, history_vars>>
    /\ UNCHANGED <<mode, cutoffs, df, row_idx, exc, out_verdicts, cache_vars>>

\* a handler that leaves the issue empty
ExceptException_silent ==
    /\ UNCHANGED <<executed, out_executed>>
    /\ spc = "except"
    /\ exc.kind = "Exception"
    /\ verdict' = verdict
    /\ spc' = "return"
    /\ UNCHANGED <<pipe_vars, history_vars>>
    /\ UNCHANGED <<mode, cutoffs, df, row_idx, exc, out_verdicts, cache_vars>>

\* no handler for Exception: it leaves __call__ and classify_df
ExceptException_absent ==
    /\ UNCHANGED <<executed, out_executed>>
    /\ spc = "except"
    /\ exc.kind = "Exception"
    /\ verdict' = verdict
    /\ spc' = "raised"
    /\ UNCHANGED <<pipe_vars, history_vars>>
    /\ UNCHANGED <<mode, cutoffs, df, row_idx, exc, out_verdicts, cache_vars>>

\* except Exception as e:
\*     verdict['issue'] = f'Uncaught {e.__class__.__name__} exception: {e}'
ExceptException ==
    /\ UNCHANGED <<executed, out_executed>>
    /\ spc = "except"
    /\ exc.kind = "Exception"
    /\ verdict' = [verdict EXCEPT
                      !.issue = <<"Uncaught ", exc.type, " exception: ", exc.msg>>]
    /\ spc' = "return"
    /\ UNCHANGED <<pipe_vars, history_vars>>
    /\ UNCHANGED <<mode, cutoffs, df, row_idx, exc, out_verdicts, cache_vars>>

\* else: verdict['acceptable'] = True; return verdict
ElseReturn ==
    /\ UNCHANGED <<executed, out_executed>>
    /\ spc = "else"
    /\ verdict' = [verdict EXCEPT !.acceptable = TRUE]
    /\ spc' = "return"
    /\ UNCHANGED <<pipe_vars, history_vars>>
    /\ UNCHANGED <<mode, cutoffs, df, row_idx, exc, out_verdicts, cache_vars>>

\* __call__ has returned: the verdict joins _verdicts
Return ==
    /\ spc = "return"
    /\ out_verdicts' = Append(out_verdicts, verdict)
    /\ out_executed' = Append(out_executed, executed)
    /\ UNCHANGED executed
    /\ spc' = "idle"
    /\ UNCHANGED <<pipe_vars, history_vars>>
    /\ UNCHANGED <<mode, cutoffs, df, row_idx, verdict, exc, cache_vars>>

\* every row has its verdict: classify_df returns
ClassifyDone ==
    /\ UNCHANGED <<executed, out_executed>>
    /\ spc = "idle"
    /\ row_idx = Len(df)
    /\ spc' = "done"
    /\ UNCHANGED <<pipe_vars, history_vars>>
    /\ UNCHANGED <<mode, cutoffs, df, row_idx, verdict, exc, out_verdicts,
                   cache_vars>>

\* the own cutoffs attribute of the sieve: it has one once
\* enable_analysis_mode has run
self_own == [has |-> analysis, table |-> IF analysis THEN cutoffs ELSE <<>>]

\* sieve.enable_analysis_mode(), called between two classify_df calls
EnableAnalysisMode ==
    /\ spc = "done" \/ (spc = "idle" /\ row_idx = 0)
    /\ LET got == enable_analysis_mode_self(self_own, CompoundSieve_cutoffs) IN
        /\ cutoffs' = lookup(got.own, got.cls)
        /\ CompoundSieve_cutoffs' = got.cls
    /\ analysis' = TRUE
    /\ normal_verdicts' = IF analysis THEN normal_verdicts ELSE out_verdicts
    /\ UNCHANGED <<pipe_vars, lower, other_own>>
    /\ UNCHANGED <<mode, df, row_idx, spc, verdict, exc, out_verdicts,
                   cache_vars, executed, out_executed>>

\* a second sieve's enable_analysis_mode(), called between two classify_df
\* calls of the first (looked at for the frames of one row)
OtherEnableAnalysisMode ==
    /\ spc = "done" \/ (spc = "idle" /\ row_idx = 0)
    /\ Len(df) = 1
    /\ LET got == enable_analysis_mode_self(other_own, CompoundSieve_cutoffs) IN
        /\ other_own' = got.own
        /\ CompoundSieve_cutoffs' = got.cls
        /\ cutoffs' = lookup(self_own, got.cls)
    /\ UNCHANGED <<pipe_vars, analysis, normal_verdicts, lower>>
    /\ UNCHANGED <<mode, df, row_idx, spc, verdict, exc, out_verdicts,
                   cache_vars, executed, out_executed>>

\* the caller, holding the verdicts of the normal cutoffs, gives the same
\* frame to classify_df again
ClassifyDfAgain ==
    /\ spc = "done"
    /\ analysis
    /\ normal_verdicts # <<>>
    /\ Len(scorer_calls) <= MaxScorerCalls
    /\ row_idx' = 0
    /\ spc' = "idle"
    /\ verdict' = NewVerdict
    /\ exc' = At(NoExc, "")
    /\ out_verdicts' = <<>>
    /\ executed' = <<>>
    /\ out_executed' = <<>>
    /\ UNCHANGED <<pipe_vars, history_vars>>
    /\ UNCHANGED <<mode, cutoffs, df, cache_vars>>

\* SieveMode's values
mode_value ==
    [basic |-> 0, substructure |-> 1, synthon_v2 |-> 2, synthon_v3 |-> 3]

\* CompoundSieve(mode=hi): a new sieve of a higher mode, with the class's
\* cutoffs and empty caches, is given the same frame
NewSieve(hi) ==
    /\ spc = "done"
    /\ ~analysis
    /\ mode_value[hi] > mode_value[mode]
    /\ lower' = [mode |-> mode, executed |-> out_executed, verdicts |-> out_verdicts]
    /\ mode' = hi
    /\ nuveau_dejavu_synthons' = <<>>
    /\ scorer_calls' = <<>>
    /\ row_idx' = 0
    /\ spc' = "idle"
    /\ verdict' = NewVerdict
    /\ exc' = At(NoExc, "")
    /\ out_verdicts' = <<>>
    /\ executed' = <<>>
    /\ out_executed' = <<>>
    /\ UNCHANGED <<pipe_vars, analysis, normal_verdicts, attr_vars>>
    /\ UNCHANGED <<cutoffs, df>>

SieveNext ==
    \/ EnableAnalysisMode
    \/ OtherEnableAnalysisMode
    \/ ClassifyDfAgain
    \/ \E hi \in Modes : NewSieve(hi)
    \/ StartCall
    \/ CalcRowInfo
    \/ Assess
    \/ ReturnBasic
    \/ CalcMolInfo
    \/ CalcBoringness
    \/ AssessMolPatterns
    \/ ReturnSubstructure
    \/ CalcRobogroups
    \/ CalcSynthonInfoOld
    \/ CalcSynthonInfo
    \/ CalcScore
    \/ ExceptBadCompound
    \/ ExceptException
    \/ ElseReturn
    \/ Return
    \/ ClassifyDone

\* the file run's variables while the sieve is looked at
PipeParked ==
    /\ file = <<>>
    /\ chunk_size = 1
    /\ max_workers = 1
    /\ pc = "parked"
    /\ fh_pos = 0
    /\ headers = <<>>
    /\ chunk = <<>>
    /\ i = -1
    /\ futures = <<>>
    /\ results = <<>>
    /\ k = 0
    /\ tasks = <<>>
    /\ staging = <<>>
    /\ audit = <<>>
    /\ report = <<>>
    /\ MergeVarsInit

SieveSpecInit == SieveInit /\ PipeParked

SieveSpec == SieveSpecInit /\ [][SieveNext]_vars

\* --------------------------------------------- properties of the sieve
AssessLabels == DOMAIN after_assess

\* the metric stages of __call__ in the order the code runs them, by mode
stage_order(md) ==
    CASE md = "basic" -> <<"calc_row_info">>
      [] md = "substructure" -> <<"calc_row_info", "calc_mol_info", "calc_boringness">>
      [] md = "synthon_v2" -> <<"calc_row_info", "calc_mol_info", "calc_boringness",
                                "calc_robogroups", "calc_synthon_info_old">>
      [] md = "synthon_v3" -> <<"calc_row_info", "calc_mol_info", "calc_boringness",
                                "calc_synthon_info", "calc_score">>

\* the metric stage a statement belongs to (a cutoff or pattern check
\* belongs to the metric stage before it)
stage_of(label) ==
    CASE label \in {"calc_row_info", "assess_row_info"} -> "calc_row_info"
      [] label \in {"calc_mol_info", "assess_mol_info"} -> "calc_mol_info"
      [] label \in {"calc_boringness", "assess_boringness", "assess_mol_patterns"}
            -> "calc_boringness"
      [] label \in {"calc_robogroups", "assess_robogroups"} -> "calc_robogroups"
      [] label \in {"calc_synthon_info_old", "assess_synthon_info_old"}
            -> "calc_synthon_info_old"
      [] label \in {"calc_synthon_info", "assess_synthon_info"} -> "calc_synthon_info"
      [] label = "calc_score" -> "calc_score"

\* the keys each metric stage writes
stage_keys(stage) ==
    CASE stage = "calc_row_info" ->
            {"hbonds", "HAC", "hbonds_per_HAC", "rota_per_da", "rota_per_HAC"}
      [] stage = "calc_mol_info" ->
            {"N_rings", "N_methylene", "N_ring_atoms", "largest_ring_size",
             "N_protection_groups"}
      [] stage = "calc_boringness" ->
            {"N_spiro", "N_bridgehead", "N_alicyclics", "N_fused_rings",
             "N_heterocyclics", "N_aromatic_carbocylics", "N_methylene",
             "boringness", "boringness_per_HAC"}
      [] stage = "calc_robogroups" ->
            {"synthon_score", "synthon_score_per_HAC"} \cup {n_key(wanted[j]) : j \in DOMAIN wanted}
      [] stage = "calc_synthon_info_old" ->
            {"N_synthons", "synthon_sociability", "synthon_sociability_per_HAC"}
      [] stage = "calc_synthon_info" ->
            {"N_synthons", "synthon_score", "synthon_score_per_HAC"}
      [] stage = "calc_score" ->
            {"combined_Zscore"} \cup {score_table[j].key : j \in DOMAIN score_table}

\* the keys of the stages up to and including a stage, and of those after it
KeysUpTo(md, stage) ==
    LET order == stage_order(md)
        pos == CHOOSE j \in DOMAIN order : order[j] = stage
    IN UNION {stage_keys(order[j]) : j \in 1..pos}

KeysAfter(md, stage) ==
    LET order == stage_order(md)
        pos == CHOOSE j \in DOMAIN order : order[j] = stage
    IN UNION {stage_keys(order[j]) : j \in (pos + 1)..Len(order)} \ KeysUpTo(md, stage)

Returning == spc = "return"

\* C6: the verdict __call__ returns is acceptable exactly when no statement
\* of the try block raised BadCompound or another exception; the verdict of
\* a record that was rejected holds no metric of a stage after the one that
\* raised (early exit).
C6_AcceptIffNoRaise ==
    Returning =>
        /\ verdict.acceptable <=> exc.kind = "none"
        /\ exc.kind # "none" =>
              DOMAIN verdict.m \cap KeysAfter(mode, stage_of(exc.at)) = {}

\* a record rejected by the structural cutoffs in the deepest mode
C6_Witness ==
    /\ Returning
    /\ mode = "synthon_v3"
    /\ exc.kind = "BadCompound"
    /\ exc.at = "assess_mol_info"
    /\ ~verdict.acceptable
    /\ "N_rings" \in DOMAIN verdict.m

\* C7: in every verdict returned, in every mode and on every exit path, the
\* issue is empty exactly when acceptable is true.
C7_IssueEmptyIffAcceptable ==
    /\ Returning => (verdict.issue = <<>> <=> verdict.acceptable)
    /\ \A j \in DOMAIN out_verdicts :
          out_verdicts[j].issue = <<>> <=> out_verdicts[j].acceptable

\* an accepted record's verdict returned, and a rejected one's about to be
C7_Witness ==
    /\ Len(out_verdicts) = 1
    /\ out_verdicts[1].acceptable
    /\ Returning
    /\ exc.kind = "BadCompound"
    /\ verdict.issue = <<"Contains ", "carbamate">>

\* C8: an exception other than BadCompound raised by any statement of the
\* try block is turned into a verdict that is not acceptable and whose issue
\* is 'Uncaught <type> exception: <message>'; it does not leave __call__, so
\* every row of the DataFrame gets its verdict.
C8_FaultsAreCaught ==
    /\ spc # "raised"
    /\ (Returning /\ exc.kind = "Exception") =>
          /\ ~verdict.acceptable
          /\ verdict.issue = <<"Uncaught ", exc.type, " exception: ", exc.msg>>
    /\ spc = "idle" => Len(out_verdicts) = row_idx
    /\ spc = "done" => Len(out_verdicts) = Len(df)

\* a zero heavy-atom count in the first row, and the second row classified
\* and accepted after it
C8_Witness ==
    /\ spc = "done"
    /\ Len(df) = 2
    /\ Rows[df[1]].HAC = 0
    /\ out_verdicts[1].issue =
          <<"Uncaught ", "ZeroDivisionError", " exception: ", "division by zero">>
    /\ out_verdicts[2].acceptable

\* a rule is violated by a verdict: its metric is present and below the
\* minimum or above the maximum
Violated(rule, m) ==
    /\ rule.key[2] \in DOMAIN m
    /\ \/ rule.key[1] = "min" /\ Less(m[rule.key[2]], rule.value)
       \/ rule.key[1] = "max" /\ Greater(m[rule.key[2]], rule.value)

ViolatedRules(m) == {j \in DOMAIN cutoffs : Violated(cutoffs[j], m)}

FirstViolated(m) == CHOOSE j \in ViolatedRules(m) : \A l \in ViolatedRules(m) : j <= l

Direction(rule) == IF rule.key[1] = "min" THEN " too low" ELSE " too high"

\* a cutoff check has just passed
AssessPassed ==
    \/ spc \in {"if_basic", "calc_boringness", "assess_mol_patterns",
                "calc_synthon_info_old", "calc_score"}
    \/ spc = "else" /\ mode = "synthon_v2"

\* a cutoff check has just rejected
AssessRejected ==
    /\ spc \in {"except", "return"}
    /\ exc.at \in AssessLabels

\* C9: a cutoff check rejects with '<metric> too low' or '<metric> too high'
\* of the first rule, in the table's order, whose metric is present and
\* violated, and it does not reject a verdict that violates no present rule.
C9_FirstViolatedRuleWins ==
    /\ AssessPassed => ViolatedRules(verdict.m) = {}
    /\ AssessRejected =>
          /\ ViolatedRules(verdict.m) # {}
          /\ LET rule == cutoffs[FirstViolated(verdict.m)] IN
                exc = At(BadCompound(<<rule.key[2], Direction(rule)>>), exc.at)

\* a verdict violating two rules, rejected for the first
C9_Witness ==
    /\ AssessRejected
    /\ Cardinality(ViolatedRules(verdict.m)) >= 2
    /\ exc.msg = <<"hbonds_per_HAC", " too low">>

\* the metrics of the structural, synthon and composite-score stages
LaterMetrics ==
    UNION {stage_keys(s) : s \in {"calc_mol_info", "calc_boringness", "calc_robogroups",
                                  "calc_synthon_info_old", "calc_synthon_info",
                                  "calc_score"}}
        \ stage_keys("calc_row_info")

\* C10: a rule whose metric is absent from the verdict is skipped: a cutoff
\* check raises nothing but BadCompound, and only for a metric the verdict
\* holds; in basic mode no structural, synthon or composite-score cutoff
\* rejects a record.
C10_AbsentMetricSkipped ==
    /\ exc.at \in AssessLabels =>
          /\ exc.kind = "BadCompound"
          /\ exc.msg[1] \in DOMAIN verdict.m
    /\ (mode = "basic" /\ exc.kind = "BadCompound") => exc.msg[1] \notin LaterMetrics

\* basic mode accepts a record whose molecule has no ring
C10_Witness ==
    /\ Returning
    /\ mode = "basic"
    /\ Rows[df[row_idx]].mol.N_rings = 0
    /\ verdict.acceptable
    /\ \E j \in DOMAIN cutoffs : cutoffs[j].key[2] \notin DOMAIN verdict.m

\* the metric keys the stages of a mode write
ModeKeys(md) == UNION {stage_keys(stage_order(md)[j]) : j \in DOMAIN stage_order(md)}

\* every threshold is 0 for a minimum and +infinity for a maximum
NeutralBounds ==
    \A j \in DOMAIN cutoffs :
        cutoffs[j].value = (IF cutoffs[j].key[1] = "min" THEN R(0) ELSE Inf)

\* C11: once enable_analysis_mode() has been called every threshold is the
\* neutral bound of its direction and no record is rejected: the verdict
\* __call__ returns is acceptable and holds every metric of the mode's
\* stages (a record whose processing raised a fault is left aside here; C8
\* is about it).
C11_AnalysisNeverRejects ==
    analysis =>
        /\ NeutralBounds
        /\ (Returning /\ exc.kind # "Exception") =>
              /\ verdict.acceptable
              /\ ModeKeys(mode) \subseteq DOMAIN verdict.m

\* C12: every record accepted under the normal cutoffs is accepted when the
\* same sieve classifies the same frame after enable_analysis_mode(), so the
\* accepted count does not decrease, and every metric the two verdicts of a
\* record both hold has the same value.
C12_AnalysisMonotone ==
    (analysis /\ normal_verdicts # <<>>) =>
        /\ \A j \in DOMAIN out_verdicts :
              /\ normal_verdicts[j].acceptable => out_verdicts[j].acceptable
              /\ \A key \in DOMAIN normal_verdicts[j].m \cap DOMAIN out_verdicts[j].m :
                    normal_verdicts[j].m[key] = out_verdicts[j].m[key]
        /\ Len(out_verdicts) = Len(df) =>
              n_acceptable(normal_verdicts) <= n_acceptable(out_verdicts)

\* the verdict holds a composite score below the table's minimum for it
ZscoreBelowMinimum ==
    /\ "combined_Zscore" \in DOMAIN verdict.m
    /\ \E j \in DOMAIN cutoffs :
          /\ cutoffs[j].key = <<"min", "combined_Zscore">>
          /\ Less(verdict.m["combined_Zscore"], cutoffs[j].value)

\* C13: in synthon_v3 mode the cutoff check runs again after calc_score: a
\* record whose combined_Zscore is below min_combined_Zscore is returned not
\* acceptable, with the issue 'combined_Zscore too low'.
C13_ZscoreGatesAcceptance ==
    (Returning /\ mode = "synthon_v3" /\ ZscoreBelowMinimum) =>
        /\ ~verdict.acceptable
        /\ verdict.issue = <<"combined_Zscore", " too low">>

\* --------------------------------------------- properties of the merges
\* a merge has written its output
MergeFinished == pc \in {"done", "sp_merged"}

\* the header lines of the chunk files, and their data rows in the order
\* the merge met the files
StagedHeaders == {staging[idx][1] : idx \in DOMAIN staging}

ListedRows == Concat([j \in DOMAIN listing |-> Tail(staging[listing[j]])])

\* C14: a merge over a staging directory of chunk files (a header line, then
\* data rows) writes the header once, then every data row of every chunk
\* file once, and no chunk file's header line among the data rows (stated
\* here for a directory that holds at least one chunk file).
C14_HeaderOnceRowsOnce ==
    (MergeFinished /\ DOMAIN staging # {}) =>
        /\ merged # <<>>
        /\ merged[1] \in StagedHeaders
        /\ Tail(merged) = ListedRows
        /\ \A j \in 2..Len(merged) : merged[j] \notin StagedHeaders

\* C15 as claimed: the n that first_selection-v2.py prints is the number of
\* data rows written to the merged file, the sum of the chunk files' data
\* rows.
C15_PrintedIsRowCount ==
    pc = "done" => printed = Len(ListedRows)

\* C15 as amended: the n printed is the number of lines written to the
\* merged file, its header line included: the data rows and one more when
\* there is a chunk file, 0 when there is none.
C15_PrintedIsLineCount ==
    pc = "done" =>
        /\ printed = Len(merged)
        /\ printed = Len(ListedRows) + (IF DOMAIN staging = {} THEN 0 ELSE 1)

\* two chunk files of two rows each were merged
C15_Witness ==
    /\ pc = "done"
    /\ Cardinality(DOMAIN staging) = 2
    /\ Len(ListedRows) = 4
    /\ printed = 5

AcceptedLines(lines) == SelectSeq(lines, LAMBDA l : l[1] = "a")

RejectedLines(lines) == SelectSeq(lines, LAMBDA l : l[1] # "a")

RECURSIVE SumCounts(_)
SumCounts(c) ==
    IF DOMAIN c = {} THEN 0
    ELSE LET key == CHOOSE x \in DOMAIN c : TRUE
         IN c[key] + SumCounts([x \in DOMAIN c \ {key} |-> c[x]])

\* the audit entries of a chunk index
AuditOf(idx) == {j \in DOMAIN audit : audit[j].chunk_idx = idx}

\* C16: whatever the interleaving of the workers, the audit log holds one
\* entry for each chunk whose task has completed, accepted records or not,
\* and none for any other chunk; the entry carries the filename, the chunk
\* index and the count of each issue observed, the accepted records counted
\* under the empty issue, and the counts sum to the chunk's record count.
C16_OneAuditEntryPerChunk ==
    /\ Len(audit) = Cardinality({t \in DOMAIN tasks : tasks[t].state = "done"})
    /\ \A t \in DOMAIN tasks :
          IF tasks[t].state # "done" THEN AuditOf(tasks[t].i) = {}
          ELSE /\ Cardinality(AuditOf(tasks[t].i)) = 1
               /\ \A j \in AuditOf(tasks[t].i) :
                     /\ audit[j].filename = filename
                     /\ SumCounts(audit[j].counts) = Len(tasks[t].chunk)
                     /\ "" \in DOMAIN audit[j].counts
                            <=> AcceptedLines(tasks[t].chunk) # <<>>
                     /\ "too boring" \in DOMAIN audit[j].counts
                            <=> RejectedLines(tasks[t].chunk) # <<>>
                     /\ \A iss \in DOMAIN audit[j].counts :
                           audit[j].counts[iss] =
                              Len(IF iss = "" THEN AcceptedLines(tasks[t].chunk)
                                              ELSE RejectedLines(tasks[t].chunk))

\* two workers ran at once and the later chunk's entry was appended first;
\* one of the two chunks had no accepted record
C16_Witness ==
    /\ Len(audit) = 2
    /\ audit[1].chunk_idx > audit[2].chunk_idx
    /\ \E j \in DOMAIN audit : "" \notin DOMAIN audit[j].counts
    /\ \E j \in DOMAIN audit : "" \in DOMAIN audit[j].counts

\* the chunk file process_chunk is to write for a chunk
ExpectedArtifact(t) ==
    <<join("\t", tasks[t].headers) \o <<"\n">>>>
        \o [j \in DOMAIN AcceptedLines(tasks[t].chunk) |->
               out_row(AcceptedLines(tasks[t].chunk)[j])]

\* C17: once a task has written its output, the chunk's file exists exactly
\* when a record of the chunk was accepted, and then holds the header
\* followed by the accepted records of the chunk; the merge meets the files
\* that exist and no other, so the merged rows are those files' rows.
C17_ArtifactIffAccepted ==
    /\ \A t \in DOMAIN tasks :
          /\ tasks[t].state \in {"written", "done"} => tasks[t].wrote
          /\ tasks[t].wrote =>
              /\ tasks[t].i \in DOMAIN staging <=> AcceptedLines(tasks[t].chunk) # <<>>
              /\ tasks[t].i \in DOMAIN staging => staging[tasks[t].i] = ExpectedArtifact(t)
    /\ \A idx \in DOMAIN staging :
          \E t \in DOMAIN tasks : tasks[t].i = idx /\ tasks[t].wrote
    /\ pc = "done" =>
          /\ Range(listing) =
                {tasks[t].i : t \in {u \in DOMAIN tasks :
                                       /\ tasks[u].wrote
                                       /\ AcceptedLines(tasks[u].chunk) # <<>>}}
          /\ Len(listing) = Cardinality(Range(listing))
          /\ Len(merged) = IF listing = <<>> THEN 0 ELSE 1 + Len(ListedRows)

\* a run that ended with a chunk that left no file between two that did
C17_Witness ==
    /\ pc = "done"
    /\ Len(tasks) = 3
    /\ \A t \in DOMAIN tasks : tasks[t].state = "done"
    /\ DOMAIN staging = {0, 2}
    /\ Len(merged) = 3

\* ------------------------------------- properties of the order of stages
\* the record matches an unwanted pattern or the PAINS catalogue
HasBadPattern(mol) == first_unwanted(unwanted, mol) # "" \/ mol.pains

\* the pattern check's reason for a molecule
PatternIssue(mol) ==
    IF first_unwanted(unwanted, mol) # ""
    THEN <<"Contains ", first_unwanted(unwanted, mol)>>
    ELSE <<"PAINS">>

\* the boringness of the row's molecule is above the table's maximum
TooBoring ==
    LET b == calc_boringness(row.mol, ("HAC" :> R(row.HAC))).m["boringness"] IN
    \E j \in DOMAIN cutoffs :
        cutoffs[j].key = <<"max", "boringness">> /\ Greater(b, cutoffs[j].value)

\* __call__ is returning the verdict of a record that got through the
\* structural cutoff check and has an unwanted pattern
PatternCase ==
    /\ Returning
    /\ mode # "basic"
    /\ exc.at \in {"assess_boringness", "assess_mol_patterns"}
    /\ HasBadPattern(row.mol)

\* C19 as claimed: the pattern stage runs before the boringness stage: a
\* record that has an unwanted pattern and is above the boringness maximum
\* is rejected with the pattern's reason, and its verdict holds no
\* boringness metric.
C19_PatternBeforeBoringness ==
    (PatternCase /\ TooBoring) =>
        /\ verdict.issue = PatternIssue(row.mol)
        /\ "boringness" \notin DOMAIN verdict.m

\* C19 as amended: the boringness stage and its cutoff check run before
\* the pattern check: such a record is rejected with 'boringness too high'
\* and its verdict holds the boringness metric; the pattern's reason is
\* given only to a record that passed the boringness cutoff, after the
\* statements of the row, structural and boringness stages in this order.
C19_BoringnessBeforePattern ==
    /\ (PatternCase /\ TooBoring) =>
          /\ exc.at = "assess_boringness"
          /\ verdict.issue = <<"boringness", " too high">>
          /\ "boringness" \in DOMAIN verdict.m
    /\ (PatternCase /\ ~TooBoring) =>
          /\ exc.at = "assess_mol_patterns"
          /\ verdict.issue = PatternIssue(row.mol)
          /\ "boringness" \in DOMAIN verdict.m
          /\ executed = <<"calc_row_info", "assess_row_info", "calc_mol_info",
                          "assess_mol_info", "calc_boringness", "assess_boringness",
                          "assess_mol_patterns">>

\* a record with a carbamate and three aromatic carbocycles, rejected for
\* its boringness
C19_Witness ==
    /\ PatternCase
    /\ TooBoring
    /\ "carbamate" \in row.mol.matches
    /\ verdict.issue = <<"boringness", " too high">>

\* ----------------------------------------------- properties of the modes
IsPrefix(a, b) == Len(a) <= Len(b) /\ SubSeq(b, 1, Len(a)) = a

\* an earlier sieve of a lower mode classified the frame under the same
\* cutoffs, and this sieve has returned the verdict of record j
Compared(j) ==
    /\ lower.mode # ""
    /\ ~analysis
    /\ j \in DOMAIN out_executed

\* the keys of an accepted verdict of the lower mode are in this verdict
KeysKept(j) ==
    lower.verdicts[j].acceptable =>
        DOMAIN lower.verdicts[j].m \subseteq DOMAIN out_verdicts[j].m

\* C20 as claimed: for basic < substructure < synthon_v2 < synthon_v3 and
\* any record, the statements executed under a lower mode are a prefix of
\* those executed under a higher mode, and the metric keys of a verdict the
\* lower mode accepted are among those of the higher mode's verdict.
C20_ModesArePrefixes ==
    \A j \in DOMAIN df :
        Compared(j) =>
            /\ IsPrefix(lower.executed[j], out_executed[j])
            /\ KeysKept(j)

\* the statements of the substructure mode
SubstructureStatements ==
    <<"calc_row_info", "assess_row_info", "calc_mol_info", "assess_mol_info",
      "calc_boringness", "assess_boringness", "assess_mol_patterns">>

\* C20 as amended: the statements executed (and the keys of an accepted
\* verdict) under basic are a prefix (subset) of those under substructure,
\* and those under substructure of those under synthon_v2 and under
\* synthon_v3; synthon_v2 and synthon_v3 are two continuations of
\* substructure: for a record that passes the pattern check they agree on
\* the statements of substructure and differ from the next one on.
C20_ModesBranchAfterSubstructure ==
    \A j \in DOMAIN df :
        Compared(j) =>
            /\ lower.mode \in {"basic", "substructure"} =>
                  /\ IsPrefix(lower.executed[j], out_executed[j])
                  /\ KeysKept(j)
            /\ lower.mode = "synthon_v2" =>
                  IF Len(lower.executed[j]) <= Len(SubstructureStatements)
                  THEN out_executed[j] = lower.executed[j]
                  ELSE /\ IsPrefix(SubstructureStatements, lower.executed[j])
                       /\ IsPrefix(SubstructureStatements, out_executed[j])
                       /\ lower.executed[j][8] = "calc_robogroups"
                       /\ out_executed[j][8] = "calc_synthon_info"

\* the good record, accepted by a substructure sieve and then by a
\* synthon_v3 sieve that ran three more statements
C20_Witness ==
    /\ spc = "done"
    /\ lower.mode = "substructure"
    /\ mode = "synthon_v3"
    /\ ~analysis
    /\ df = <<1>>
    /\ lower.verdicts[1].acceptable
    /\ out_verdicts[1].acceptable
    /\ Len(out_executed[1]) = Len(lower.executed[1]) + 3

\* ------------------------------------------- properties of the chunk sizes
\* C21: for a chunk size n >= 1 every chunk chunked_iterator yields holds at
\* least one record and at most n; every chunk but the last holds exactly n
\* (a shorter chunk is yielded only when it exhausts the stream); a stream
\* without records yields no chunk.
C21_ChunkSizes ==
    /\ chunk_size >= 1
    /\ \A j \in DOMAIN Yielded :
          /\ Len(Yielded[j]) >= 1
          /\ Len(Yielded[j]) <= chunk_size
          /\ j < Len(Yielded) => Len(Yielded[j]) = chunk_size
          /\ Len(Yielded[j]) < chunk_size => j = Len(Yielded) /\ fh_pos = Len(file)
    /\ (AfterLoop /\ Len(file) = 1) => Yielded = <<>>
    /\ (AfterLoop /\ Len(file) > 1) =>
          Len(Yielded) = (Len(file) - 1 + chunk_size - 1) \div chunk_size

\* three records were cut with n = 2: a full chunk, then the last one of one
\* record
C21_Witness ==
    /\ AfterLoop
    /\ chunk_size = 2
    /\ Len(file) = 4
    /\ Len(Yielded) = 2
    /\ Len(Yielded[1]) = 2
    /\ Len(Yielded[2]) = 1

\* ------------------------------------- properties of the fragment cache
\* the calls that invoked the similarity scorer
ScoringCalls == {j \in DOMAIN scorer_calls : scorer_calls[j].scored}

\* C22: over the calc_sociability calls made on one sieve the similarity
\* scorer is invoked at most once for each InChI; a call for an InChI scored
\* before returns the value of that scoring without invoking the scorer;
\* the cache holds exactly the scored InChIs with the value of their scoring,
\* and while the sieve lives an entry of the cache is neither changed nor
\* removed.
C22_ScoringMemoized ==
    /\ [](/\ \A a, b \in ScoringCalls :
                scorer_calls[a].inchi = scorer_calls[b].inchi => a = b
          /\ \A a \in ScoringCalls : \A b \in DOMAIN scorer_calls :
                (a < b /\ scorer_calls[b].inchi = scorer_calls[a].inchi) =>
                    /\ scorer_calls[b].value = scorer_calls[a].value
                    /\ ~scorer_calls[b].scored
          /\ DOMAIN nuveau_dejavu_synthons =
                {scorer_calls[a].inchi : a \in ScoringCalls}
          /\ \A a \in ScoringCalls :
                nuveau_dejavu_synthons[scorer_calls[a].inchi] = scorer_calls[a].value)
    /\ [][lower' = lower =>
            \A key \in DOMAIN nuveau_dejavu_synthons :
                /\ key \in DOMAIN nuveau_dejavu_synthons'
                /\ nuveau_dejavu_synthons'[key] = nuveau_dejavu_synthons[key]]_vars

\* a fragment was scored, and met again later with another conformer: the
\* second call returned the first score; a fragment that could not be
\* embedded at first was scored once it could
C22_Witness ==
    /\ spc = "done"
    /\ \E a, b \in DOMAIN scorer_calls :
          /\ a < b
          /\ scorer_calls[a].inchi = scorer_calls[b].inchi
          /\ scorer_calls[a].scored
          /\ scorer_calls[b].value = 3
    /\ Len(out_verdicts) = 2
    /\ Cardinality(ScoringCalls) >= 1

\* ------------------------------------ properties of the cutoffs attribute
\* the rule names of a table, in the dictionary's order
RuleNames(table) == [j \in DOMAIN table |-> table[j].key]

\* self.cutoffs as the second sieve resolves it
other_cutoffs == lookup(other_own, CompoundSieve_cutoffs)

\* C23: enable_analysis_mode() on a sieve changes the table of that sieve
\* only: CompoundSieve.cutoffs stays the table the class was given, a sieve
\* that has not called it goes on seeing the class's table, the call leaves
\* the cutoffs every other sieve sees and the rule names as they were, and
\* the table it leaves is one a further call does not change.
C23_AnalysisModeIsLocal ==
    /\ [](/\ CompoundSieve_cutoffs \in CutoffTables
          /\ ~analysis => cutoffs = CompoundSieve_cutoffs
          /\ ~other_own.has => other_cutoffs = CompoundSieve_cutoffs
          /\ analysis => enable_analysis_mode(cutoffs) = cutoffs
          /\ RuleNames(cutoffs) = RuleNames(CompoundSieve_cutoffs)
          /\ RuleNames(other_cutoffs) = RuleNames(CompoundSieve_cutoffs))
    /\ [][/\ EnableAnalysisMode =>
                /\ CompoundSieve_cutoffs' = CompoundSieve_cutoffs
                /\ other_cutoffs' = other_cutoffs
                /\ RuleNames(cutoffs') = RuleNames(cutoffs)
                /\ analysis => cutoffs' = cutoffs
          /\ OtherEnableAnalysisMode =>
                /\ CompoundSieve_cutoffs' = CompoundSieve_cutoffs
                /\ cutoffs' = cutoffs
                /\ RuleNames(other_cutoffs') = RuleNames(other_cutoffs)
                /\ other_own.has => other_cutoffs' = other_cutoffs]_vars

\* under the second-pass table a sieve classified a frame, was put in
\* analysis mode and classified the frame again, while a second sieve still
\* saw the class's table
C23_Witness ==
    /\ spc = "done"
    /\ CompoundSieve_cutoffs = second_pass_cutoffs
    /\ analysis
    /\ cutoffs # CompoundSieve_cutoffs
    /\ normal_verdicts # <<>>
    /\ out_verdicts # <<>>
    /\ ~other_own.has
    /\ other_cutoffs = second_pass_cutoffs

\* ------------------------ properties of the order of a task's two writes
\* the number of accepted records an audit entry reports
AcceptedCount(entry) ==
    IF "" \in DOMAIN entry.counts THEN entry.counts[""] ELSE 0

\* C24: process_chunk writes the chunk's output before it appends the audit
\* entry: an audit entry is only ever appended by a task that is past its
\* output step, and whenever the audit log holds an entry of a chunk with a
\* non-zero accepted count the chunk's output file exists and holds the
\* whole text, the header and every accepted record; a task that failed, at
\* whatever statement before the append, has no entry in the audit log.
C24_OutputBeforeAudit ==
    /\ [](/\ \A j \in DOMAIN audit :
                \E t \in DOMAIN tasks :
                   /\ tasks[t].i = audit[j].chunk_idx
                   /\ tasks[t].state = "done"
                   /\ tasks[t].wrote
                   /\ AcceptedCount(audit[j]) = Len(AcceptedLines(tasks[t].chunk))
                   /\ AcceptedCount(audit[j]) > 0 =>
                         /\ tasks[t].i \in DOMAIN staging
                         /\ staging[tasks[t].i] = ExpectedArtifact(t)
          /\ \A t \in DOMAIN tasks :
                tasks[t].state \in {"pending", "classified", "written", "failed"} =>
                    AuditOf(tasks[t].i) = {})
    /\ [][\A t \in DOMAIN tasks :
             AuditOf(tasks[t].i)' # AuditOf(tasks[t].i) =>
                 /\ tasks[t].state = "written"
                 /\ AcceptedLines(tasks[t].chunk) # <<>> =>
                       /\ tasks[t].i \in DOMAIN staging
                       /\ staging[tasks[t].i] = ExpectedArtifact(t)
                       /\ staging' = staging]_vars

\* one task appended its audit entry for a chunk with accepted records, and
\* another failed after it had written its output and before its audit
\* entry: its file is there and the audit log has no entry for it
C24_Witness ==
    /\ \E j \in DOMAIN audit : AcceptedCount(audit[j]) > 0
    /\ \E t \in DOMAIN tasks :
          /\ tasks[t].state = "failed"
          /\ tasks[t].wrote
          /\ tasks[t].i \in DOMAIN staging
          /\ AuditOf(tasks[t].i) = {}
    /\ \E t \in DOMAIN tasks : tasks[t].state = "failed" /\ ~tasks[t].wrote

====
